---- MODULE Spec2Model ----
(***************************************************************************)
(* The async-chat server: connection::serve (one read loop per            *)
(* connection), group_table::GroupTable (a mutex-protected map from group  *)
(* names to groups), group::Group (a tokio broadcast channel per group)    *)
(* and group::handle_subscriber (one delivery task per Join), which        *)
(* forwards what it receives to the connection's Outbound (an async mutex  *)
(* around the socket).                                                     *)
(*                                                                         *)
(* Every step between two points where another task can run is one action: *)
(* taking a mutex, the work done under it, an await.                       *)
(***************************************************************************)
EXTENDS Integers, Sequences, FiniteSets, TLC

\* ------------------------------------------------------------------ bounds
MaxPosts == 2          \* Post requests read, over all connections
LagPosts == 5          \* Post requests read in the runs of SpecLag
\* The capacity handed to broadcast::channel. The server passes 1000; the
\* model runs the same code on a small channel.
CHANNEL_CAPACITY == 3

Conns == {1, 2}         \* the connections main accepted
Names == {"g", "h"}     \* the group names the clients use
FailingConns == {1}     \* the connections whose client misbehaves or goes away
LagConns == {1}         \* the connections of the runs of SpecLag
MaxJoins == Cardinality(Conns)   \* Join requests read, over all connections

\* ------------------------------------------------------------ small values
NoMessage == 0         \* Option::None in a slot; message bodies are 1, 2, ...
NoGroup == 0           \* Option::None of an Arc<Group>; groups are 1, 2, ...

ServeTask(c) == <<"serve", c>>
SubTask(s) == <<"handle_subscriber", s>>
NoTask == <<"none", 0>>

NoRequest == [kind |-> "None", group_name |-> "", message |-> NoMessage]
JoinRequest(name) == [kind |-> "Join", group_name |-> name, message |-> NoMessage]
PostRequest(name, m) == [kind |-> "Post", group_name |-> name, message |-> m]

\* FromServer packets. An Error carries a formatted string: fmt is the format
\* string, n and group_name the values formatted into it.
NoPacket == [kind |-> "None", fmt |-> "", n |-> 0, group_name |-> "", message |-> NoMessage]
MessagePacket(name, m) ==
    [kind |-> "Message", fmt |-> "", n |-> 0, group_name |-> name, message |-> m]
DroppedError(n, name) ==
    [kind |-> "Error", fmt |-> "Dropped {n} messages from {group_name}.",
     n |-> n, group_name |-> name, message |-> NoMessage]
NoSuchGroupError(name) ==
    [kind |-> "Error", fmt |-> "Group '{group_name}' does not exist",
     n |-> 0, group_name |-> name, message |-> NoMessage]

\* ------------------------------------------------- tokio broadcast channel
RECURSIVE Pow2From(_, _)
Pow2From(p, n) == IF p >= n THEN p ELSE Pow2From(2 * p, n)
\* A capacity taken as it is given.
CapacityAsGiven(n) == n
\* usize::next_power_of_two
NextPowerOfTwo(n) == Pow2From(1, n)

\* broadcast::channel rounds the capacity up to a power of two: the length
\* of the slot array.
BufferLen == NextPowerOfTwo(CHANNEL_CAPACITY)
Slots == 0..(BufferLen - 1)

\* broadcast::channel(capacity): the shared state the Sender owns, with the
\* one Receiver the call returns counted in rx_cnt. posted is history, kept
\* for the properties: the calls of Group::post on this group, in order.
Channel(name) ==
    [name    |-> name,
     pos     |-> 0,
     rx_cnt  |-> 1,
     closed  |-> FALSE,
     buffer  |-> [i \in Slots |-> [pos |-> i - BufferLen, rem |-> 0, val |-> NoMessage]],
     posted  |-> <<>>]

\* A send that stores its value whether or not there is a receiver.
SendAlwaysStores(g, value) ==
    [g EXCEPT !.pos = @ + 1,
              !.buffer[g.pos % BufferLen] =
                  [pos |-> g.pos, rem |-> g.rx_cnt, val |-> value]]
\* A send that finds the slot of the tail position taken and gives up its
\* own value instead of the old one.
SendKeepsOldest(g, value) ==
    IF g.rx_cnt = 0
    THEN g
    ELSE IF g.buffer[g.pos % BufferLen].val # NoMessage
    THEN [g EXCEPT !.pos = @ + 1]
    ELSE [g EXCEPT !.pos = @ + 1,
                   !.buffer[g.pos % BufferLen] =
                       [pos |-> g.pos, rem |-> g.rx_cnt, val |-> value]]
\* A send that puts its value ahead of the one sent before it, when no
\* receiver has read that one yet.
SendAheadOfLast(g, value) ==
    LET last == (g.pos - 1) % BufferLen IN
    IF g.rx_cnt = 0
    THEN g
    ELSE IF g.pos >= 1 /\ g.buffer[last].val # NoMessage /\ g.buffer[last].rem = g.rx_cnt
    THEN [g EXCEPT !.pos = @ + 1,
                   !.buffer[last].val = value,
                   !.buffer[g.pos % BufferLen] =
                       [pos |-> g.pos, rem |-> g.rx_cnt, val |-> g.buffer[last].val]]
    ELSE [g EXCEPT !.pos = @ + 1,
                   !.buffer[g.pos % BufferLen] =
                       [pos |-> g.pos, rem |-> g.rx_cnt, val |-> value]]
\* Sender::send: an error, and nothing stored, when there is no receiver;
\* otherwise the value takes the slot of the tail position.
Send(g, value) ==
    IF g.rx_cnt = 0
    THEN g
    ELSE [g EXCEPT !.pos = @ + 1,
                   !.buffer[g.pos % BufferLen] =
                       [pos |-> g.pos, rem |-> g.rx_cnt, val |-> value]]

\* A subscription that begins one message late, as a task would that
\* subscribes only once it runs.
SubscribeLate(g) == g.pos + 1
\* A subscribe that replays the retained history.
SubscribeAtOldest(g) == IF g.pos > BufferLen THEN g.pos - BufferLen ELSE 0
\* Sender::subscribe: the new receiver's position is the tail position.
SubscribeNext(g) == g.pos

\* A receiver that does not move on after a value.
NextStays(next) == next
\* The receiver's position after a value was received.
NextAfterOk(next) == next + 1

\* A lagging receiver that skips to the tail.
NextAtTail(g) == g.pos
\* The receiver's position after it lagged: the oldest value still in the
\* buffer.
NextAfterLagged(g) == g.pos - BufferLen

\* A guard that drops the value with the first receiver that has read it.
GuardDropFirst(g, idx) ==
    [g EXCEPT !.buffer[idx].rem = @ - 1, !.buffer[idx].val = NoMessage]
\* Dropping the RecvGuard: the last receiver of a slot drops its value.
GuardDrop(g, idx) ==
    [g EXCEPT !.buffer[idx].rem = @ - 1,
              !.buffer[idx].val = IF g.buffer[idx].rem = 1 THEN NoMessage ELSE @]

\* A lag report that counts a whole buffer, whatever was missed.
MissedIsBuffer(oldest, next) == BufferLen
\* `let missed = next.wrapping_sub(self.next)`: the values between the
\* receiver's position and the oldest one still in the buffer.
Missed(oldest, next) == oldest - next

\* Receiver::recv_ref for a receiver at position next: what it returns
\* (kind), the receiver's new position, the count of a Lagged, the value of
\* an Ok, and the channel after it.
RecvRef(g, next) ==
    LET idx  == next % BufferLen
        slot == g.buffer[idx]
        ok   == [kind |-> "Ok", next |-> NextAfterOk(next), n |-> 0,
                 val |-> slot.val, g |-> GuardDrop(g, idx)]
        none(k) == [kind |-> k, next |-> next, n |-> 0, val |-> NoMessage, g |-> g]
    IN  IF slot.pos # next
        THEN IF slot.pos + BufferLen = next
             THEN IF g.closed THEN none("Closed") ELSE none("Empty")
             ELSE LET nx     == NextAfterLagged(g)
                      missed == Missed(nx, next)
                  IN  IF missed = 0
                      THEN ok
                      ELSE [kind |-> "Lagged", next |-> nx, n |-> missed,
                            val |-> NoMessage, g |-> g]
        ELSE ok

\* Receiver::drop: one receiver less, and the values it had not received
\* are released.
RECURSIVE Drain(_, _, _)
Drain(g, next, until) ==
    IF next >= until
    THEN g
    ELSE LET r == RecvRef(g, next)
         IN  IF r.kind \in {"Closed", "Empty"} THEN g ELSE Drain(r.g, r.next, until)
DropReceiver(g, next) == Drain([g EXCEPT !.rx_cnt = @ - 1], next, g.pos)

\* A group that keeps neither end of its channel: with the last Sender
\* dropped the channel is closed.
GroupNewSenderDropped(name) == [DropReceiver(Channel(name), 0) EXCEPT !.closed = TRUE]
\* Group::new: the channel's first receiver is dropped at once.
GroupNew(name) == DropReceiver(Channel(name), 0)

\* --------------------------------------------------------------- the state
VARIABLES
    conn,        \* per connection: the read loop of serve; sent is history,
                 \* the packets it wrote to the socket
    sock,        \* per connection: the transport, "open" or "closed"
    out_lock,    \* per connection: the task holding Outbound's mutex
    table,       \* GroupTable's map: name -> group, NoGroup when absent
    table_lock,  \* the task holding GroupTable's mutex
    groups,      \* the Group objects ever created, in creation order
    subs,        \* the handle_subscriber tasks ever spawned, in spawn order;
                 \* sent is history, the packets the task wrote to the socket
    njoin,       \* Join requests read so far
    npost,       \* Post requests read so far
    codec        \* one request on its way from a client's send_as_json to
                 \* the server's receive_as_json

vars == <<conn, sock, out_lock, table, table_lock, groups, subs, njoin, npost, codec>>

\* The server after main has created the table, before any request.
InitServer ==
    /\ conn = [c \in Conns |->
                 [pc |-> "Reading", request |-> NoRequest, vacant |-> FALSE,
                  group |-> NoGroup, sent |-> <<>>]]
    /\ sock = [c \in Conns |-> "open"]
    /\ out_lock = [c \in Conns |-> NoTask]
    /\ table = [name \in Names |-> NoGroup]
    /\ table_lock = NoTask
    /\ groups = <<>>
    /\ subs = <<>>
    /\ njoin = 0
    /\ npost = 0

\* No request is on the wire.
CodecIdle == [pc |-> "Idle", request |-> <<>>, stream |-> <<>>, received |-> <<>>]

Init ==
    /\ InitServer
    /\ codec = CodecIdle

\* ------------------------------------------------------ history operators
\* The oldest sequence number whose message is still in the buffer, read off
\* the slots; the tail position when the buffer holds nothing yet.
SlotSeqs(g) == {g.buffer[i].pos : i \in Slots} \cap Nat
OldestRetained(g) ==
    IF SlotSeqs(g) = {} THEN g.pos
    ELSE CHOOSE q \in SlotSeqs(g) : \A r \in SlotSeqs(g) : q <= r

\* --------------------------------------------------- GroupTable (the map)
\* A lock that excludes nobody.
TableLockNotExclusive == TRUE
\* std::sync::Mutex::lock: taken only when no task holds it.
TableLockFree == table_lock = NoTask

\* A lookup that inserts the group it does not find.
GetInserting(name) ==
    IF table[name] # NoGroup
    THEN [found |-> table[name], table |-> table, groups |-> groups]
    ELSE [found |-> Len(groups) + 1,
          table |-> [table EXCEPT ![name] = Len(groups) + 1],
          groups |-> Append(groups, GroupNew(name))]
\* A lookup that answers every name with the first group created.
GetFirst(name) ==
    [found |-> IF groups = <<>> THEN NoGroup ELSE 1, table |-> table, groups |-> groups]
\* GroupTable::get: the lookup, which leaves the map and the groups alone.
Get(name) == [found |-> table[name], table |-> table, groups |-> groups]

\* ------------------------------------------------ serve: the read loop
\* An insert that takes every entry for vacant and replaces the group.
EntryAlwaysVacant(name) == TRUE
\* HashMap::entry(name): vacant when the map has no group for the name.
EntryVacant(name) == table[name] = NoGroup

\* from_client.next() yields a Join request; get_or_create locks the table
\* and entry(name) finds the name's entry occupied or vacant.
RecvJoin(c, name) ==
    /\ conn[c].pc = "Reading"
    /\ sock[c] = "open"
    /\ njoin < MaxJoins
    /\ TableLockFree
    /\ njoin' = njoin + 1
    /\ table_lock' = ServeTask(c)
    /\ conn' = [conn EXCEPT ![c].pc = "JoinInsert", ![c].request = JoinRequest(name),
                            ![c].vacant = EntryVacant(name)]
    /\ UNCHANGED <<codec, sock, out_lock, table, groups, subs, npost>>

\* A guard that lives on in the caller after the lookup.
TableGuardKept(c) == ServeTask(c)
\* The MutexGuard of `self.0.lock().unwrap()` is a temporary: it is dropped
\* at the end of the statement, before get_or_create returns.
TableGuardAfterLookup(c) == NoTask

\* get_or_create: or_insert_with(Group::new) on a vacant entry, the clone of
\* the Arc, and the guard dropped at the end of the statement.
JoinInsert(c) ==
    LET name == conn[c].request.group_name IN
    /\ conn[c].pc = "JoinInsert"
    /\ IF conn[c].vacant
       THEN /\ groups' = Append(groups, GroupNew(name))
            /\ table' = [table EXCEPT ![name] = Len(groups) + 1]
            /\ conn' = [conn EXCEPT ![c].pc = "JoinSubscribe", ![c].vacant = FALSE,
                                    ![c].group = Len(groups) + 1]
       ELSE /\ conn' = [conn EXCEPT ![c].pc = "JoinSubscribe",
                                    ![c].group = table[name]]
            /\ UNCHANGED <<groups, table>>
    /\ table_lock' = TableGuardAfterLookup(c)
    /\ UNCHANGED <<codec, sock, out_lock, subs, njoin, npost>>


\* A join that spawns no second task for a connection and a group that
\* have one.
SpawnOncePerMember(tasks, task) ==
    IF \E t \in 1..Len(tasks) : tasks[t].conn = task.conn /\ tasks[t].group = task.group
    THEN tasks
    ELSE Append(tasks, task)
\* task::spawn(handle_subscriber(..)): one more task, whatever tasks run.
Spawn(tasks, task) == Append(tasks, task)

\* A subscribe the channel does not count.
ReceiversUncounted(n) == n
\* Sender::subscribe: the channel has one receiver more.
ReceiversAfterSubscribe(n) == n + 1

\* Group::join: subscribe and spawn handle_subscriber; the match arm is
\* Ok(()), so the loop goes back to reading. joined_at is history: how many
\* posts the group had seen when the subscription was made; asked is
\* history: the group name the Join request carried.
JoinSubscribe(c) ==
    LET gid == conn[c].group
        g   == groups[gid]
    IN
    /\ conn[c].pc = "JoinSubscribe"
    /\ groups' = [groups EXCEPT ![gid].rx_cnt = ReceiversAfterSubscribe(@)]
    /\ subs' = Spawn(subs,
                 [conn |-> c, group |-> gid, group_name |-> g.name,
                  next |-> SubscribeNext(g), pc |-> "Recv", packet |-> NoPacket,
                  joined_at |-> Len(g.posted), sent |-> <<>>, read_ended |-> FALSE,
                  asked |-> conn[c].request.group_name])
    /\ conn' = [conn EXCEPT ![c].pc = "Reading", ![c].request = NoRequest,
                            ![c].group = NoGroup]
    /\ UNCHANGED <<codec, sock, out_lock, table, table_lock, njoin, npost>>

\* A server that takes posts only from the members of the group.
GroupFoundForMember(c, found) ==
    /\ found # NoGroup
    /\ \E s \in 1..Len(subs) : subs[s].conn = c /\ subs[s].group = found
\* `match groups.get(&group_name)`: Some(group) or None, whoever asks.
GroupFound(c, found) == found # NoGroup

\* from_client.next() yields a Post request; GroupTable::get runs under the
\* lock, the guard dropped on return; then the match on its result. The
\* clients' messages are all different: the k-th Post read carries the body k.
RecvPostWithin(c, name, limit) ==
    LET r == Get(name) IN
    /\ conn[c].pc = "Reading"
    /\ sock[c] = "open"
    /\ npost < limit
    /\ TableLockFree
    /\ npost' = npost + 1
    /\ table' = r.table
    /\ groups' = r.groups
    /\ conn' = [conn EXCEPT ![c].pc = IF GroupFound(c, r.found) THEN "PostSend" ELSE "ErrLock",
                            ![c].request = PostRequest(name, npost + 1),
                            ![c].group = r.found]
    /\ UNCHANGED <<codec, sock, out_lock, table_lock, subs, njoin>>

RecvPost(c, name) == RecvPostWithin(c, name, MaxPosts)

\* A read loop that reports the error of a read to the client as it
\* reports the error of a request.
PcAfterReadErrorReports == "ErrLock"
\* `let request = request_result?;`: serve returns the error of the read.
PcAfterReadError == "Closed"

\* from_client.next() yields an error (a malformed line, a transport error):
\* `request_result?` returns it.
ReadError(c) ==
    /\ conn[c].pc = "Reading"
    /\ conn' = [conn EXCEPT ![c].pc = PcAfterReadError]
    /\ UNCHANGED <<codec, sock, out_lock, table, table_lock, groups, subs, njoin, npost>>

\* from_client.next() yields None (end of input): serve returns Ok(()).
ReadEof(c) ==
    /\ conn[c].pc = "Reading"
    /\ sock[c] = "closed"
    /\ conn' = [conn EXCEPT ![c].pc = "Closed"]
    /\ UNCHANGED <<codec, sock, out_lock, table, table_lock, groups, subs, njoin, npost>>

\* A send that waits for the slot of the tail position to be free, as the
\* send of a bounded queue does.
SendWaitsForRoom(g) == g.buffer[g.pos % BufferLen].val = NoMessage
\* Sender::send is not async and waits for nothing: it can run whatever the
\* state of the channel.
SendReady(g) == TRUE

\* Group::post: the result of send is ignored. The entry's `to` is history:
\* the group name the Post request carried.
PostSend(c) ==
    LET gid == conn[c].group
        g   == groups[gid]
        m   == conn[c].request.message
    IN
    /\ conn[c].pc = "PostSend"
    /\ SendReady(g)
    /\ groups' = [groups EXCEPT ![gid] =
                     [Send(g, m) EXCEPT !.posted =
                         Append(@, [message |-> m, rx_cnt |-> g.rx_cnt, pos |-> g.pos,
                                    to |-> conn[c].request.group_name])]]
    /\ conn' = [conn EXCEPT ![c].pc = "Reading", ![c].request = NoRequest,
                            ![c].group = NoGroup]
    /\ UNCHANGED <<codec, sock, out_lock, table, table_lock, subs, njoin, npost>>

\* A guard on the socket that its task keeps after the send.
OutboundGuardKept(task) == task
\* The guard of `self.0.lock().await` is a local of Outbound::send: it is
\* dropped when send returns, with Ok or through `?`.
OutboundGuardAfterSend(task) == NoTask

\* One lock for the sockets of all connections.
OutboundLockShared(c) == \A d \in Conns : out_lock[d] = NoTask
\* A lock on the socket that excludes nobody.
OutboundLockNotExclusive(c) == TRUE
\* async_std::sync::Mutex::lock().await: returns only when no task holds the
\* guard.
OutboundLockFree(c) == out_lock[c] = NoTask

\* outbound.send(report): self.0.lock().await
ErrLock(c) ==
    /\ conn[c].pc = "ErrLock"
    /\ OutboundLockFree(c)
    /\ out_lock' = [out_lock EXCEPT ![c] = ServeTask(c)]
    /\ conn' = [conn EXCEPT ![c].pc = "ErrWrite"]
    /\ UNCHANGED <<codec, sock, table, table_lock, groups, subs, njoin, npost>>

\* A read loop that goes on whether the reply was sent or not.
AfterErrorReplyGoesOn(sent) == "Reading"
\* A read loop that ends once it has reported an error.
AfterErrorReplyReturns(sent) == "Closed"
\* `outbound.send(report).await?`: the loop goes on after a reply that was
\* sent, and serve returns the error of one that was not.
AfterErrorReply(sent) == IF sent THEN "Reading" ELSE "Closed"

\* outbound.send(report) with the lock held: send_as_json writes the line
\* and flush returns, the guard is dropped and the loop goes back to reading;
\* or the write fails on a closed transport, `?` drops the guard and serve
\* returns the error.
ErrWrite(c) ==
    /\ conn[c].pc = "ErrWrite"
    /\ out_lock' = [out_lock EXCEPT ![c] = OutboundGuardAfterSend(ServeTask(c))]
    /\ IF sock[c] = "open"
       THEN conn' = [conn EXCEPT ![c].pc = AfterErrorReply(TRUE),
                                 ![c].request = NoRequest,
                                 ![c].sent = Append(@, NoSuchGroupError(
                                                          conn[c].request.group_name))]
       ELSE conn' = [conn EXCEPT ![c].pc = AfterErrorReply(FALSE),
                                 ![c].request = NoRequest]
    /\ UNCHANGED <<codec, sock, table, table_lock, groups, subs, njoin, npost>>

\* --------------------------------------- handle_subscriber: delivery task
\* A loop that breaks when its receiver lagged.
PcAfterRecvLagBreaks(kind) == IF kind = "Ok" THEN "SendLock" ELSE "Done"
\* What the loop does with the result of recv: a packet to send, or break.
PcAfterRecv(kind) == IF kind = "Closed" THEN "Done" ELSE "SendLock"

PacketOf(name, r) ==
    IF r.kind = "Ok" THEN MessagePacket(name, r.val)
    ELSE IF r.kind = "Lagged" THEN DroppedError(r.n, name)
    ELSE NoPacket

\* A receiver that sleeps through the first message that comes for it and
\* is woken by the second.
RecvReadyAtSecond(g, next) == g.pos - next >= 2
\* Recv::poll: Pending, with the task's waker queued under the channel's
\* lock, while recv_ref finds the channel empty for this receiver; a send
\* wakes the queued wakers.
RecvReady(g, next) == RecvRef(g, next).kind # "Empty"

\* receiver.recv().await: suspended while the channel is empty for this
\* receiver. A task that breaks drops its receiver. read_ended is history:
\* the connection's read loop had ended when the packet in hand was polled.
SubRecv(s) ==
    LET sb  == subs[s]
        g   == groups[sb.group]
        r   == RecvRef(g, sb.next)
        pc2 == PcAfterRecv(r.kind)
    IN
    /\ sb.pc = "Recv"
    /\ RecvReady(g, sb.next)
    /\ subs' = [subs EXCEPT ![s].pc = pc2,
                            ![s].next = r.next,
                            ![s].read_ended = (conn[sb.conn].pc = "Closed"),
                            ![s].packet = IF pc2 = "Done" THEN NoPacket
                                           ELSE PacketOf(sb.group_name, r)]
    /\ groups' = [groups EXCEPT ![sb.group] =
                     IF pc2 = "Done" THEN DropReceiver(r.g, r.next) ELSE r.g]
    /\ UNCHANGED <<codec, conn, sock, out_lock, table, table_lock, njoin, npost>>

\* A loop that ignores the result of the send.
PcAfterSendIgnoresError(ok) == "Recv"
\* A task that ends once it has sent a packet.
PcAfterSendOnce(ok) == "Done"
\* `if outbound.send(packet).await.is_err() { break; }`: the loop goes on
\* after a send that returned Ok.
PcAfterSend(ok) == IF ok THEN "Recv" ELSE "Done"

\* outbound.send(packet): self.0.lock().await
SubLock(s) ==
    LET sb == subs[s] IN
    /\ sb.pc = "SendLock"
    /\ OutboundLockFree(sb.conn)
    /\ out_lock' = [out_lock EXCEPT ![sb.conn] = SubTask(s)]
    /\ subs' = [subs EXCEPT ![s].pc = "Write"]
    /\ UNCHANGED <<codec, conn, sock, table, table_lock, groups, njoin, npost>>

\* outbound.send(packet) with the lock held: send_as_json writes the line
\* and flush returns, the guard is dropped and the loop goes on; or the write
\* fails on a closed transport, the guard is dropped, is_err() breaks the
\* loop and the receiver is dropped.
SubWrite(s) ==
    LET sb == subs[s] IN
    /\ sb.pc = "Write"
    /\ out_lock' = [out_lock EXCEPT ![sb.conn] = OutboundGuardAfterSend(SubTask(s))]
    /\ IF sock[sb.conn] = "open"
       THEN /\ subs' = [subs EXCEPT ![s].pc = PcAfterSend(TRUE), ![s].packet = NoPacket,
                                    ![s].sent = Append(@, sb.packet),
                                    ![s].read_ended = FALSE]
            /\ groups' = IF PcAfterSend(TRUE) = "Done"
                         THEN [groups EXCEPT ![sb.group] = DropReceiver(@, sb.next)]
                         ELSE groups
       ELSE /\ subs' = [subs EXCEPT ![s].pc = PcAfterSend(FALSE), ![s].packet = NoPacket,
                                    ![s].read_ended = FALSE]
            /\ groups' = IF PcAfterSend(FALSE) = "Done"
                         THEN [groups EXCEPT ![sb.group] = DropReceiver(@, sb.next)]
                         ELSE groups
    /\ UNCHANGED <<codec, conn, sock, table, table_lock, njoin, npost>>

\* ------------------------------------------------------- the environment
\* The client goes away: from here on reads end and writes fail.
PeerClose(c) ==
    /\ sock[c] = "open"
    /\ sock' = [sock EXCEPT ![c] = "closed"]
    /\ UNCHANGED <<codec, conn, out_lock, table, table_lock, groups, subs, njoin, npost>>

Next ==
    \/ \E c \in Conns, name \in Names : RecvJoin(c, name)
    \/ \E c \in Conns : JoinInsert(c)
    \/ \E c \in Conns : JoinSubscribe(c)
    \/ \E c \in Conns, name \in Names : RecvPost(c, name)
    \/ \E c \in Conns : PostSend(c)
    \/ \E c \in Conns : ErrLock(c)
    \/ \E c \in Conns : ErrWrite(c)
    \/ \E c \in FailingConns : ReadError(c)
    \/ \E c \in FailingConns : ReadEof(c)
    \/ \E s \in 1..Len(subs) : SubRecv(s)
    \/ \E s \in 1..Len(subs) : SubLock(s)
    \/ \E s \in 1..Len(subs) : SubWrite(s)
    \/ \E c \in FailingConns : PeerClose(c)

Spec == Init /\ [][Next]_vars

\* The runs in which subscribers fall behind: one connection joins the group
\* "g" (more than once) and posts to it more messages than the channel holds;
\* no transport fails.
NextLag ==
    \/ \E c \in LagConns : RecvJoin(c, "g")
    \/ \E c \in LagConns : JoinInsert(c)
    \/ \E c \in LagConns : JoinSubscribe(c)
    \/ \E c \in LagConns : RecvPostWithin(c, "g", LagPosts)
    \/ \E c \in LagConns : PostSend(c)
    \/ \E c \in LagConns : ErrLock(c)
    \/ \E c \in LagConns : ErrWrite(c)
    \/ \E s \in 1..Len(subs) : SubRecv(s)
    \/ \E s \in 1..Len(subs) : SubLock(s)
    \/ \E s \in 1..Len(subs) : SubWrite(s)

SpecLag == Init /\ [][NextLag]_vars

\* A step of the delivery task s, once it is spawned.
SubStep(s) == s \in 1..Len(subs) /\ (SubRecv(s) \/ SubLock(s) \/ SubWrite(s))
\* The runs of SpecLag in which the executor is fair to every delivery task:
\* a task that can go on is polled again (the waker of recv, of the
\* Outbound's lock and of the write), and the writes complete.
SpecLive == SpecLag /\ \A s \in 1..MaxJoins : WF_vars(SubStep(s))

\* ------------------------------------------------- history of a delivery
Subs == 1..Len(subs)
GroupOf(s) == groups[subs[s].group]

\* The posts the group's channel accepted (it had a receiver), in order: the
\* message with sequence number q is Accepted(g)[q + 1].
Accepted(g) == SelectSeq(g.posted, LAMBDA e : e.rx_cnt > 0)
AcceptedMessages(g) == {Accepted(g)[i].message : i \in 1..Len(Accepted(g))}
SeqOf(g, m) == (CHOOSE i \in 1..Len(Accepted(g)) : Accepted(g)[i].message = m) - 1
\* The posts that found the group without a receiver.
DroppedMessages(g) ==
    {g.posted[i].message : i \in {j \in 1..Len(g.posted) : g.posted[j].rx_cnt = 0}}

\* The packets task s wrote to its connection, in order.
WireOf(s) == subs[s].sent
\* Everything written to the sockets so far, task by task.
Written == <<[c \in Conns |-> conn[c].sent], [s \in Subs |-> subs[s].sent]>>
\* The packets the channel handed to task s: those it wrote and the one it
\* is about to write.
Handed(s) ==
    IF subs[s].pc \in {"SendLock", "Write"}
    THEN Append(WireOf(s), subs[s].packet)
    ELSE WireOf(s)
Messages(s) == SelectSeq(Handed(s), LAMBDA p : p.kind = "Message")

\* What the group had seen when subscription s was made.
PostedBeforeJoin(s) == {GroupOf(s).posted[i].message : i \in 1..subs[s].joined_at}
NextSeqAtJoin(s) ==
    Cardinality({i \in 1..subs[s].joined_at : GroupOf(s).posted[i].rx_cnt > 0})

\* Task s takes a step out of recv: a poll that returned.
Polled(s) == subs[s].pc = "Recv" /\ subs'[s].pc # "Recv"
\* The messages posted to the group of s that s has not polled yet.
Behind(s) == Len(Accepted(GroupOf(s))) - subs[s].next

\* ----------------------------------------------------------------- claims

\* C1: a subscription's cursor starts at the group's next sequence number at
\* the moment of subscribe, and the subscriber is never handed a message
\* that was posted before its subscribe.
C1_JoinSeesFutureOnly ==
    \A s \in Subs :
        /\ subs[s].next >= NextSeqAtJoin(s)
        /\ (Handed(s) = <<>> /\ subs[s].pc = "Recv") => subs[s].next = NextSeqAtJoin(s)
        /\ \A i \in 1..Len(Messages(s)) :
              /\ Messages(s)[i].message \notin PostedBeforeJoin(s)
              /\ Messages(s)[i].message \in AcceptedMessages(GroupOf(s))
              /\ SeqOf(GroupOf(s), Messages(s)[i].message) >= NextSeqAtJoin(s)

\* A message was accepted by the group before s subscribed, and s has been
\* handed a later one.
C1_Witness ==
    \E s \in Subs : NextSeqAtJoin(s) >= 1 /\ Len(Messages(s)) >= 1

\* C2: what each subscription of a group is handed is a subsequence of the
\* group's one post order: messages of that group, in strictly increasing
\* sequence numbers, whatever posts, polls and lags came in between.
C2_TotalOrder ==
    \A s \in Subs :
        LET ms == Messages(s)
            g  == GroupOf(s)
        IN  /\ \A i \in 1..Len(ms) :
                  ms[i].group_name = g.name /\ ms[i].message \in AcceptedMessages(g)
            /\ \A i \in 1..(Len(ms) - 1) :
                  SeqOf(g, ms[i].message) < SeqOf(g, ms[i + 1].message)

\* Two subscriptions of one group were both handed two messages or more, and
\* one of them lagged on the way.
C2_Witness ==
    \E s, t \in Subs :
        /\ s # t /\ subs[s].group = subs[t].group
        /\ Len(Messages(s)) >= 2 /\ Len(Messages(t)) >= 2
        /\ \E i \in 1..Len(Handed(s)) : Handed(s)[i].kind = "Error"

C4_PollStep ==
    [][\A s \in Subs :
          LET g      == GroupOf(s)
              cursor == subs[s].next
              oldest == OldestRetained(g)
          IN  Polled(s) =>
                /\ cursor < oldest =>
                      /\ subs'[s].packet = DroppedError(oldest - cursor, subs[s].group_name)
                      /\ subs'[s].next = oldest
                      /\ Written' = Written
                /\ (oldest <= cursor /\ cursor < g.pos) =>
                      /\ subs'[s].packet =
                            MessagePacket(subs[s].group_name, Accepted(g)[cursor + 1].message)
                      /\ subs'[s].next = cursor + 1
      ]_vars

\* One subscription has just been told it lagged, its cursor on the oldest
\* retained message, and another has just been handed a message.
C4_Witness ==
    \E s, t \in Subs :
        /\ subs[s].pc = "SendLock" /\ subs[s].packet.kind = "Error"
        /\ subs[s].next = OldestRetained(GroupOf(s))
        /\ subs[t].pc = "SendLock" /\ subs[t].packet.kind = "Message"

\* C5: a delivery task whose poll reports Lagged(n) goes on to send one Error
\* packet "Dropped n messages from <group>." and, once it is written, polls
\* again from the cursor the lag left it at; it does not end.
C5_LagRecoverable ==
    [][\A s \in Subs :
          LET g    == GroupOf(s)
              c    == subs[s].conn
              name == subs[s].group_name
          IN  /\ (Polled(s) /\ subs[s].next < OldestRetained(g)) =>
                    /\ subs'[s].pc = "SendLock"
                    /\ subs'[s].packet =
                          DroppedError(OldestRetained(g) - subs[s].next, name)
              /\ (/\ subs[s].pc = "SendLock"
                  /\ subs[s].packet.kind = "Error"
                  /\ subs'[s].pc # "SendLock") =>
                    /\ subs'[s].pc = "Write"
                    /\ subs'[s].packet = subs[s].packet
                    /\ Written' = Written
              /\ (/\ subs[s].pc = "Write"
                  /\ subs[s].packet.kind = "Error"
                  /\ subs'[s].pc # "Write"
                  /\ sock[c] = "open") =>
                    /\ subs'[s].sent = Append(subs[s].sent, subs[s].packet)
                    /\ subs'[s].pc = "Recv"
                    /\ subs'[s].next = subs[s].next
      ]_vars

\* A connection was sent a lag report and, after it, a message by the same
\* delivery task.
C5_Witness ==
    \E s \in Subs : \E i \in 1..Len(WireOf(s)) :
        /\ i < Len(WireOf(s))
        /\ WireOf(s)[i].kind = "Error" /\ WireOf(s)[i].n >= 1
        /\ WireOf(s)[i + 1].kind = "Message"

\* C6: no two Group objects are ever created for one name, and every handle
\* a get or a get_or_create returned for a name is the group the table maps
\* the name to.
C6_OneGroupPerName ==
    /\ \A i, j \in 1..Len(groups) : groups[i].name = groups[j].name => i = j
    /\ \A name \in Names : table[name] # NoGroup => groups[table[name]].name = name
    /\ \A c \in Conns :
          conn[c].group # NoGroup => conn[c].group = table[conn[c].request.group_name]
    /\ \A s \in Subs : subs[s].group = table[subs[s].group_name]

\* Both connections joined one name before anything was posted to it, and
\* both hold a subscription of the one group made for it.
C6_Witness ==
    \E s, t \in Subs :
        /\ subs[s].conn # subs[t].conn
        /\ subs[s].group = subs[t].group
        /\ subs[s].joined_at = 0 /\ subs[t].joined_at = 0

\* C7: a Post to a name the table does not hold makes the handler send one
\* Error packet "Group '<name>' does not exist" to the poster and go back to
\* reading; the connection stays open and no subscription ends.
C7_UnknownGroupPost ==
    [][\A c \in Conns :
          /\ (/\ conn[c].pc = "Reading"
              /\ conn'[c].request.kind = "Post"
              /\ table[conn'[c].request.group_name] = NoGroup) =>
                conn'[c].pc = "ErrLock" /\ Written' = Written /\ subs' = subs /\ sock' = sock
          /\ (conn[c].pc = "ErrLock" /\ conn'[c].pc # "ErrLock") =>
                conn'[c].pc = "ErrWrite" /\ Written' = Written /\ subs' = subs /\ sock' = sock
          /\ (conn[c].pc = "ErrWrite" /\ conn'[c].pc # "ErrWrite" /\ sock[c] = "open") =>
                /\ conn'[c].sent =
                      Append(conn[c].sent, NoSuchGroupError(conn[c].request.group_name))
                /\ \A d \in Conns \ {c} : conn'[d].sent = conn[d].sent
                /\ conn'[c].pc = "Reading"
                /\ subs' = subs
                /\ sock' = sock
      ]_vars

\* A connection with a live subscription was sent the error for its Post to
\* an unknown group and is reading again.
C7_Witness ==
    \E c \in Conns :
        /\ conn[c].pc = "Reading" /\ sock[c] = "open"
        /\ Len(conn[c].sent) >= 1
        /\ \E s \in Subs : subs[s].conn = c /\ subs[s].pc # "Done"

\* C8: the handling of a Post that names a group absent from the table
\* leaves the table and every group as they were, and writes to no
\* connection but the poster's.
C8_UnknownGroupIsolation ==
    [][\A c \in Conns :
          /\ (/\ conn[c].pc = "Reading"
              /\ conn'[c].request.kind = "Post"
              /\ table[conn'[c].request.group_name] = NoGroup) =>
                /\ table' = table /\ groups' = groups /\ Written' = Written
                /\ conn'[c].group = NoGroup
          /\ (conn[c].pc \in {"ErrLock", "ErrWrite"} /\ conn'[c] # conn[c]) =>
                /\ table' = table /\ groups' = groups
                /\ \A d \in Conns \ {c} : conn'[d].sent = conn[d].sent
                /\ subs' = subs
      ]_vars

\* The poster was answered while a group with a subscriber of the other
\* connection exists and the posted name is still absent from the table.
C8_Witness ==
    \E c \in Conns :
        /\ \E i \in 1..Len(conn[c].sent) : table[conn[c].sent[i].group_name] = NoGroup
        /\ \E s \in Subs : subs[s].conn # c /\ GroupOf(s).pos >= 1

C10_EveryPostAdvances ==
    \A gid \in 1..Len(groups) : groups[gid].pos = Len(groups[gid].posted)

\* C10: a post made while the group has no subscriber is not given a sequence
\* number and is not stored: next_seq is the number of posts made while the
\* group had a subscriber, the ring holds only such posts, and a subscriber
\* that joins starts at that next_seq.
C10_OnlyReceivedPostsAdvance ==
    /\ \A gid \in 1..Len(groups) :
          LET g == groups[gid] IN
          /\ g.pos = Len(Accepted(g))
          /\ \A i \in Slots :
                g.buffer[i].val # NoMessage =>
                   /\ g.buffer[i].pos >= 0 /\ g.buffer[i].pos < g.pos
                   /\ g.buffer[i].val = Accepted(g)[g.buffer[i].pos + 1].message
    /\ \A s \in Subs :
          (Handed(s) = <<>> /\ subs[s].pc = "Recv") =>
              subs[s].next = Len(GroupOf(s).posted) - Cardinality(DroppedMessages(GroupOf(s)))
                             - (Len(Accepted(GroupOf(s))) - NextSeqAtJoin(s))

\* A group was posted to while it had no subscriber, and a subscriber that
\* joined afterwards starts below the number of posts the group has seen.
C10_Witness ==
    \E s \in Subs :
        /\ subs[s].pc = "Recv" /\ Handed(s) = <<>>
        /\ \E i \in 1..subs[s].joined_at : GroupOf(s).posted[i].rx_cnt = 0
        /\ subs[s].next < subs[s].joined_at

\* ------------------------------------------------ the example of the ring
IsPrefix(a, b) == Len(a) <= Len(b) /\ \A i \in 1..Len(a) : a[i] = b[i]
\* Subscription s was made before the group's first message, and the group
\* has been posted n messages since.
EarlyWith(s, n) == NextSeqAtJoin(s) = 0 /\ Len(Accepted(GroupOf(s))) = n
\* The packet for the q-th message of the group of s (A is the first).
NthMessage(s, q) == MessagePacket(subs[s].group_name, Accepted(GroupOf(s))[q].message)

Held(g) == {g.buffer[i].pos : i \in {j \in Slots : g.buffer[j].val # NoMessage}}
\* The ring holds the buffer_len latest messages of the post order, each
\* under its own sequence number.
RingIsSuffix(g) ==
    /\ Held(g) = (g.pos - Cardinality(Held(g)))..(g.pos - 1)
    /\ \A i \in Slots :
          g.buffer[i].val # NoMessage =>
              g.buffer[i].val = Accepted(g)[g.buffer[i].pos + 1].message

OldestHeld(g) == CHOOSE q \in Held(g) : \A r \in Held(g) : q <= r

\* C13: a read loop that is about to post can always take the step, whatever
\* the cursors of the subscribers, however full the ring and whichever task
\* is inside a send of an Outbound; the step is the whole post, it puts the
\* message at the head of the ring, and on a full ring the oldest message
\* makes room for it.
C13_PostNeverBlocks ==
    /\ [](\A c \in Conns : conn[c].pc = "PostSend" => ENABLED PostSend(c))
    /\ [][\A c \in Conns :
            (conn[c].pc = "PostSend" /\ conn'[c] # conn[c]) =>
                LET g  == groups[conn[c].group]
                    g2 == groups'[conn[c].group]
                IN  /\ conn'[c].pc = "Reading"
                    /\ subs' = subs /\ out_lock' = out_lock
                    /\ g.rx_cnt > 0 =>
                          /\ g2.pos = g.pos + 1
                          /\ g2.buffer[g.pos % BufferLen].val = conn[c].request.message
                          /\ Cardinality(Held(g)) = BufferLen =>
                                Held(g2) = (Held(g) \ {OldestHeld(g)}) \cup {g.pos}
         ]_vars

\* A post has evicted the oldest message of a full ring while one delivery
\* task was inside a send and another had not polled at all.
C13_Witness ==
    /\ \A c \in LagConns : conn[c].pc = "Reading"
    /\ \E s, t \in Subs :
          /\ subs[s].pc = "Write"
          /\ subs[t].pc = "Recv" /\ Handed(t) = <<>>
          /\ subs[s].group = subs[t].group
          /\ GroupOf(t).pos > BufferLen
          /\ Cardinality(Held(GroupOf(t))) = BufferLen
          /\ Behind(t) > BufferLen

\* ------------------------------------------------- the Outbound's section
\* The tasks inside the write and flush of a send on connection c.
InSend(c) ==
    {SubTask(s) : s \in {t \in Subs : subs[t].conn = c /\ subs[t].pc = "Write"}}
        \cup (IF conn[c].pc = "ErrWrite" THEN {ServeTask(c)} ELSE {})

\* C14: on each connection at most one task is inside the write and flush of
\* a send, the one that holds the Outbound's lock, and a packet is written
\* to the connection only by that task: nothing of another task's gets
\* between the lock and the release.
C14_OutboundExclusive ==
    /\ [](\A c \in Conns :
            /\ Cardinality(InSend(c)) <= 1
            /\ InSend(c) = IF out_lock[c] = NoTask THEN {} ELSE {out_lock[c]})
    /\ [][\A c \in Conns :
            /\ conn'[c].sent # conn[c].sent => out_lock[c] = ServeTask(c)
            /\ \A s \in Subs :
                  (subs[s].conn = c /\ subs'[s].sent # subs[s].sent) =>
                      out_lock[c] = SubTask(s)
         ]_vars

\* A delivery task is inside a send while the read loop of the same
\* connection waits for the Outbound to report an error.
C14_Witness ==
    \E c \in Conns : \E s \in Subs :
        /\ subs[s].conn = c /\ subs[s].pc = "Write"
        /\ conn[c].pc = "ErrLock"

\* -------------------------------------------------- a connection that fails
\* What a poll of subscription t would return on the channel g.
PollOn(g, t) ==
    LET r == RecvRef(g, subs[t].next) IN [kind |-> r.kind, next |-> r.next, n |-> r.n, val |-> r.val]
\* The step is part of the failing of connection c: its transport closes,
\* its read loop ends, or one of its delivery tasks moves.
StepOf(c) ==
    \/ sock'[c] # sock[c]
    \/ conn[c].pc # "Closed" /\ conn'[c].pc = "Closed"
    \/ \E s \in Subs : subs[s].conn = c /\ subs'[s] # subs[s]

\* C15: the closing of a connection's transport, the end of its read loop
\* and every step its delivery tasks take from then on leave the table, every
\* group's sequence counter and post order, and the read loops, transports,
\* Outbounds and delivery tasks of the other connections as they were, and
\* the next poll of every other subscription returns what it would have
\* returned; a delivery task ends only when its own connection's transport
\* is closed, and a read loop only on a connection that failed.
C15_FailureIsolation ==
    /\ [](/\ \A t \in Subs : subs[t].pc = "Done" => sock[subs[t].conn] = "closed"
          /\ \A d \in Conns \ FailingConns : conn[d].pc # "Closed" /\ sock[d] = "open")
    /\ [][\A c \in Conns :
            ((sock[c] = "closed" \/ sock'[c] = "closed") /\ StepOf(c)) =>
                /\ table' = table
                /\ Len(groups') = Len(groups)
                /\ \A gid \in 1..Len(groups) :
                      /\ groups'[gid].pos = groups[gid].pos
                      /\ groups'[gid].posted = groups[gid].posted
                      /\ groups'[gid].closed = groups[gid].closed
                /\ \A d \in Conns \ {c} :
                      conn'[d] = conn[d] /\ sock'[d] = sock[d] /\ out_lock'[d] = out_lock[d]
                /\ \A t \in Subs :
                      subs[t].conn # c =>
                          /\ subs'[t] = subs[t]
                          /\ PollOn(groups'[subs[t].group], t) = PollOn(groups[subs[t].group], t)
         ]_vars

\* A delivery task ended on its closed connection, and a subscription of
\* another connection to the same group was sent a message that was posted
\* when it was the group's only receiver left.
C15_Witness ==
    \E s, t \in Subs :
        /\ subs[s].group = subs[t].group /\ subs[s].conn # subs[t].conn
        /\ subs[s].pc = "Done"
        /\ \E i \in 1..Len(GroupOf(t).posted) :
              /\ i > subs[s].joined_at /\ i > subs[t].joined_at
              /\ GroupOf(t).posted[i].rx_cnt = 1
              /\ \E j \in 1..Len(subs[t].sent) :
                    subs[t].sent[j] =
                        MessagePacket(subs[t].group_name, GroupOf(t).posted[i].message)

\* ------------------------------------------------------ a slow consumer
\* The tasks of connection c that can hold its Outbound.
TasksOf(c) == {ServeTask(c)} \cup {SubTask(s) : s \in {t \in Subs : subs[t].conn = c}}

\* C16: whatever delivery task sits inside a write, a read loop that is
\* about to post can post, and a delivery task of another connection can
\* take its next step: poll when a message is waiting for it, take its own
\* connection's Outbound unless a task of that same connection holds it,
\* and write; and a live subscription that did not lag itself has been
\* handed every message posted since it subscribed, up to its cursor, in
\* order.
C16_SlowConsumerIsolation ==
    /\ \A c \in Conns : conn[c].pc = "PostSend" => ENABLED PostSend(c)
    /\ \A t \in Subs :
          /\ (subs[t].pc = "Recv" /\ Behind(t) > 0) => ENABLED SubRecv(t)
          /\ subs[t].pc = "SendLock" =>
                (ENABLED SubLock(t) \/ out_lock[subs[t].conn] \in TasksOf(subs[t].conn))
          /\ subs[t].pc = "Write" => ENABLED SubWrite(t)
          /\ (subs[t].pc # "Done" /\ \A i \in 1..Len(Handed(t)) : Handed(t)[i].kind = "Message") =>
                /\ Len(Handed(t)) = subs[t].next - NextSeqAtJoin(t)
                /\ \A i \in 1..Len(Handed(t)) :
                      Handed(t)[i] = NthMessage(t, NextSeqAtJoin(t) + i)

\* A delivery task sits inside the write of the first message while the
\* subscription of another connection to the same group has been sent that
\* message and the one posted after it.
C16_Witness ==
    \E s, t \in Subs :
        /\ subs[s].group = subs[t].group /\ subs[s].conn # subs[t].conn
        /\ subs[s].pc = "Write" /\ subs[s].sent = <<>> /\ subs[s].next = 1
        /\ subs[s].packet = NthMessage(s, 1)
        /\ GroupOf(s).pos = 2
        /\ subs[t].sent = <<NthMessage(t, 1), NthMessage(t, 2)>>

\* --------------------------------------------- the end of a delivery task
\* C17: a delivery task ends only out of a send that failed on its
\* connection's closed transport, or out of a poll on a closed group, and
\* then without writing anything; a lag report, a group without messages
\* and the end of the connection's read loop do not end it.
C17_TaskEndsOnlyOnSendErrorOrClosed ==
    /\ [](\A s \in Subs :
            subs[s].pc = "Done" => (sock[subs[s].conn] = "closed" \/ GroupOf(s).closed))
    /\ [][\A s \in Subs :
            /\ (subs[s].pc # "Done" /\ subs'[s].pc = "Done") =>
                  \/ subs[s].pc = "Write" /\ sock[subs[s].conn] = "closed"
                  \/ subs[s].pc = "Recv" /\ GroupOf(s).closed /\ Written' = Written
            /\ (subs[s].pc = "Write" /\ sock[subs[s].conn] = "open" /\ subs'[s] # subs[s]) =>
                  subs'[s].pc = "Recv"
            /\ (conn'[subs[s].conn].pc = "Closed" /\ conn[subs[s].conn].pc # "Closed") =>
                  subs'[s] = subs[s]
         ]_vars

\* A delivery task ended on a failed send, while another one, of a
\* connection whose read loop has ended, has written a packet and polls on.
C17_Witness ==
    \E s, t \in Subs :
        /\ subs[s].pc = "Done"
        /\ subs[t].pc = "Recv" /\ conn[subs[t].conn].pc = "Closed"
        /\ Len(subs[t].sent) >= 1

\* ------------------------------------------ after the end of a read loop
\* C18: a delivery task that polls a packet after its connection's read loop
\* has ended fails to write it and ends.
C18_TasksFailAfterReadLoopEnds ==
    [][\A s \in Subs :
          (subs[s].pc = "Write" /\ subs[s].read_ended /\ subs'[s].pc # "Write") =>
              /\ subs'[s].pc = "Done"
              /\ subs'[s].sent = subs[s].sent
      ]_vars

\* ------------------------------------------------------ a protocol error
\* C19: a read that yields no request ends the read loop of its connection
\* and does nothing else: nothing is written to any connection, and the
\* table, the groups, the delivery tasks and the other connections stay as
\* they were; a read loop that has ended holds no lock, takes no further
\* step and is sent nothing; and the read loops of the connections that had
\* no such error do not end.
C19_ProtocolErrorEndsOnlyReadLoop ==
    /\ [](/\ \A c \in Conns :
                conn[c].pc = "Closed" =>
                    table_lock # ServeTask(c) /\ out_lock[c] # ServeTask(c)
          /\ \A d \in Conns \ FailingConns : conn[d].pc # "Closed")
    /\ [][\A c \in Conns :
            /\ (/\ conn[c].pc = "Reading"
                /\ conn'[c] # conn[c]
                /\ conn'[c].request.kind = "None") =>
                  /\ conn'[c] = [conn[c] EXCEPT !.pc = "Closed"]
                  /\ \A d \in Conns \ {c} : conn'[d] = conn[d]
                  /\ subs' = subs /\ groups' = groups /\ table' = table
                  /\ out_lock' = out_lock /\ table_lock' = table_lock /\ sock' = sock
            /\ conn[c].pc = "Closed" => conn'[c] = conn[c]
         ]_vars

\* The read loop of a connection whose transport is up has ended without a
\* reply, and the other connection is posting while one of its delivery
\* tasks is writing.
C19_Witness ==
    \E c, d \in Conns :
        /\ c # d
        /\ conn[c].pc = "Closed" /\ sock[c] = "open" /\ conn[c].sent = <<>>
        /\ conn[d].pc = "PostSend"
        /\ \E t \in Subs : subs[t].conn = d /\ subs[t].pc = "Write"

\* ------------------------------------------- the lifetime of the Outbound
\* C20: in no state does a delivery task of a connection exist whose read
\* loop has ended: the tasks, and with them the Outbound they hold, are
\* gone when the connection is.
C20_NoSubscriptionOutlivesConnection ==
    \A s \in Subs : conn[subs[s].conn].pc = "Closed" => subs[s].pc = "Done"

\* ------------------------------------------- locks and suspension points
\* The tasks that are suspended: a read loop waiting for a line, for the
\* Outbound or for its write; a delivery task waiting for a message, for
\* the Outbound or for its write.
Suspended ==
    {ServeTask(c) : c \in {d \in Conns : conn[d].pc \in {"Reading", "ErrLock", "ErrWrite"}}}
        \cup {SubTask(s) : s \in {t \in Subs : subs[t].pc \in {"Recv", "SendLock", "Write"}}}
\* The tasks that are suspended in the write of a send.
SuspendedInWrite == UNION {InSend(c) : c \in Conns}
\* The tasks that hold a lock.
LockHolders == ({table_lock} \cup {out_lock[c] : c \in Conns}) \ {NoTask}

\* C21 as the specification has it: no suspended task holds the lock of the
\* table or of an Outbound.
C21_NoLockAcrossSuspension == Suspended \cap LockHolders = {}

\* C21: no task waiting for a message, for an input line or for a lock
\* holds a lock, and no suspended task holds the table's lock; the lock of
\* an Outbound is held by the one task suspended in the write of a send on
\* that connection, and by no other task.
C21_OnlyOutboundAcrossWrite ==
    /\ table_lock \notin Suspended
    /\ (Suspended \ SuspendedInWrite) \cap LockHolders = {}
    /\ \A c \in Conns :
          /\ out_lock[c] # NoTask => out_lock[c] \in InSend(c)
          /\ \A d \in Conns \ {c} : out_lock[c] = NoTask \/ out_lock[c] \notin InSend(d)

\* A delivery task is suspended in a write with its Outbound's lock, while
\* a read loop holds the table's lock inside get_or_create and the other
\* read loop waits for a line.
C21_Witness ==
    /\ table_lock # NoTask
    /\ \E c \in Conns : conn[c].pc = "Reading"
    /\ \E s \in Subs : subs[s].pc = "Write" /\ out_lock[subs[s].conn] = SubTask(s)

\* ------------------------------------------------------ the table's lock
\* C22: the table's lock is held only by a read loop inside get_or_create
\* (a get takes and drops it within its step): a read loop that is about to
\* subscribe, to post or to send, or that waits for a line, does not hold
\* it, and no delivery task ever does.
C22_TableLockShortLived ==
    /\ table_lock # NoTask =>
          \E c \in Conns : table_lock = ServeTask(c) /\ conn[c].pc = "JoinInsert"
    /\ \A c \in Conns :
          conn[c].pc \in {"Reading", "JoinSubscribe", "PostSend", "ErrLock", "ErrWrite", "Closed"}
              => table_lock # ServeTask(c)
    /\ \A s \in Subs : table_lock # SubTask(s)

\* A read loop is about to subscribe, out of get_or_create, while the other
\* read loop holds the table's lock.
C22_Witness ==
    \E c, d \in Conns :
        /\ c # d
        /\ conn[c].pc = "JoinSubscribe"
        /\ table_lock = ServeTask(d)

\* ------------------------------------------------- the table only grows
\* C23: a name the table holds stays in the table and keeps its group in
\* every step, and every group that was ever created is the one the table
\* holds for its name, also when all its receivers are gone.
C23_EntriesNeverRemoved ==
    /\ [](\A gid \in 1..Len(groups) : table[groups[gid].name] = gid)
    /\ [][\A name \in Names :
            table[name] # NoGroup =>
                /\ table'[name] = table[name]
                /\ groups'[table[name]].name = name
         ]_vars

\* The one subscription of a group has ended on its closed connection, the
\* group has no receiver left, and the table still holds it.
C23_Witness ==
    \E s \in Subs :
        /\ subs[s].pc = "Done" /\ sock[subs[s].conn] = "closed"
        /\ GroupOf(s).rx_cnt = 0
        /\ table[subs[s].group_name] = subs[s].group

\* ------------------------------------------------------------------ Join
\* The read loops that are inside the dispatch of a Join.
Joining == {c \in Conns : conn[c].pc \in {"JoinInsert", "JoinSubscribe"}}

\* C24: the dispatch of a Join can always go on; get_or_create leaves the
\* name in the table, with a new group only if the name had none; the
\* subscribe adds exactly one delivery task, of this connection and of the
\* group the table holds for the name, and gives the group one receiver
\* more; nothing is written to any connection on the way, and the read loop
\* is back at reading. There is one delivery task for every Join
\* dispatched.
C24_JoinNeverFails ==
    /\ [](/\ Len(subs) = njoin - Cardinality(Joining)
          /\ \A c \in Conns :
                /\ conn[c].pc = "JoinInsert" => ENABLED JoinInsert(c)
                /\ conn[c].pc = "JoinSubscribe" => ENABLED JoinSubscribe(c))
    /\ [][\A c \in Conns :
            LET name == conn[c].request.group_name IN
            /\ (conn[c].pc = "JoinInsert" /\ conn'[c] # conn[c]) =>
                  /\ conn'[c].pc = "JoinSubscribe"
                  /\ table'[name] # NoGroup /\ conn'[c].group = table'[name]
                  /\ table[name] # NoGroup => (table' = table /\ groups' = groups)
                  /\ table[name] = NoGroup =>
                        (Len(groups') = Len(groups) + 1 /\ groups'[table'[name]].name = name)
                  /\ subs' = subs
                  /\ \A d \in Conns : conn'[d].sent = conn[d].sent
            /\ (conn[c].pc = "JoinSubscribe" /\ conn'[c] # conn[c]) =>
                  /\ conn'[c].pc = "Reading"
                  /\ Len(subs') = Len(subs) + 1
                  /\ \A s \in Subs : subs'[s] = subs[s]
                  /\ subs'[Len(subs')].conn = c
                  /\ subs'[Len(subs')].group = table[name]
                  /\ subs'[Len(subs')].group_name = name
                  /\ subs'[Len(subs')].pc = "Recv"
                  /\ subs'[Len(subs')].sent = <<>>
                  /\ groups'[table[name]].rx_cnt = groups[table[name]].rx_cnt + 1
                  /\ table' = table
                  /\ \A d \in Conns : conn'[d].sent = conn[d].sent
         ]_vars

\* A connection has joined one group twice: it has two delivery tasks of
\* that group, was sent no reply and is reading.
C24_Witness ==
    \E s, t \in Subs :
        /\ s # t
        /\ subs[s].conn = subs[t].conn /\ subs[s].group = subs[t].group
        /\ conn[subs[s].conn].pc = "Reading" /\ conn[subs[s].conn].sent = <<>>
        /\ GroupOf(s).rx_cnt = 2

\* ---------------------------------------------------------------- fan-out
\* The messages the lag reports in a sequence of packets stand for.
RECURSIVE LagSum(_)
LagSum(packets) ==
    IF packets = <<>> THEN 0
    ELSE (IF Head(packets).kind = "Error" THEN Head(packets).n ELSE 0) + LagSum(Tail(packets))
\* The messages posted to its group since s subscribed, and those of them
\* that s has accounted for to its client: sent as a Message packet, or
\* counted in a lag report that was sent.
PostedSince(s) == Len(Accepted(GroupOf(s))) - NextSeqAtJoin(s)
AccountedFor(s) ==
    Len(SelectSeq(subs[s].sent, LAMBDA p : p.kind = "Message")) + LagSum(subs[s].sent)

\* C25: with an executor that is fair to the delivery tasks and writes that
\* complete, a member that was posted as many messages as the clients send
\* is eventually sent every one of them, each as a Message packet or counted
\* in a lag report; and once the clients stop posting, every member comes to
\* have accounted for every message posted since it subscribed, and stays
\* so; no member ever accounts for more than was posted.
C25_FanOutLiveness ==
    /\ \A s \in 1..MaxJoins :
          (s \in Subs /\ PostedSince(s) >= LagPosts)
              ~> (s \in Subs /\ AccountedFor(s) >= LagPosts)
    /\ <>[](\A s \in Subs : AccountedFor(s) = PostedSince(s))
    /\ [](\A s \in Subs : AccountedFor(s) <= PostedSince(s))

\* A member that was posted more messages than the ring holds has accounted
\* for all of them, one in a lag report, while another member was sent each
\* message of its own.
C25_Witness ==
    \E s, t \in Subs :
        /\ PostedSince(s) > BufferLen /\ AccountedFor(s) = PostedSince(s)
        /\ LagSum(subs[s].sent) >= 1
        /\ PostedSince(t) >= 1 /\ AccountedFor(t) = PostedSince(t)
        /\ LagSum(subs[t].sent) = 0

\* ------------------------------------------------------ after a failed send
\* C26: a delivery task whose send fails on the closed transport ends with
\* that step, and a read loop whose error reply fails returns with that
\* step; both let go of the Outbound's lock, and a task that has ended
\* never moves, locks or writes again.
C26_NoUseAfterSendError ==
    /\ [](\A c \in Conns :
            /\ conn[c].pc = "Closed" => out_lock[c] # ServeTask(c)
            /\ \A s \in Subs :
                  (subs[s].conn = c /\ subs[s].pc = "Done") => out_lock[c] # SubTask(s))
    /\ [][/\ \A s \in Subs :
               /\ (/\ subs[s].pc = "Write"
                   /\ sock[subs[s].conn] = "closed"
                   /\ subs'[s] # subs[s]) =>
                     /\ subs'[s].pc = "Done"
                     /\ subs'[s].sent = subs[s].sent
                     /\ out_lock'[subs[s].conn] = NoTask
               /\ subs[s].pc = "Done" => subs'[s] = subs[s]
          /\ \A c \in Conns :
               /\ (conn[c].pc = "ErrWrite" /\ sock[c] = "closed" /\ conn'[c] # conn[c]) =>
                     /\ conn'[c].pc = "Closed"
                     /\ conn'[c].sent = conn[c].sent
                     /\ out_lock'[c] = NoTask
               /\ conn[c].pc = "Closed" => conn'[c] = conn[c]
         ]_vars

\* A delivery task has ended on a failed send of the first message while
\* its group has a later message it never polled, and the read loop of the
\* connection has ended.
C26_Witness ==
    \E s \in Subs :
        /\ subs[s].pc = "Done" /\ subs[s].sent = <<>>
        /\ GroupOf(s).pos > subs[s].next
        /\ conn[subs[s].conn].pc = "Closed"

\* ------------------------------------------- the read loop's state machine
\* The states of a read loop inside the dispatch of a request.
Dispatch == {"JoinInsert", "JoinSubscribe", "PostSend", "ErrLock", "ErrWrite"}
\* The read loop of c goes from a state of set from to a state of set to.
Moves(c, from, to) == conn[c].pc \in from /\ conn'[c].pc \in to /\ conn'[c].pc # conn[c].pc

\* C27 as the specification has it: a read loop ends only out of Reading, on
\* the end of the input or an error of the read.
C27_ClosedOnlyFromReading ==
    [][\A c \in Conns : Moves(c, {"Reading"} \cup Dispatch, {"Closed"}) => conn[c].pc = "Reading"]_vars

\* C27: a read loop holds a request exactly while it is inside Dispatch, so
\* it reads the next one only when the one before is done; it goes from
\* Reading into Dispatch or to Closed, through Dispatch back to Reading, and
\* out of Dispatch to Closed only when the reply to a failed request cannot
\* be written to the closed transport; a post puts the request's message,
\* and nothing else, at the end of the group's post order; and Closed is
\* left by no step.
C27_ReadLoopStateMachine ==
    /\ [](\A c \in Conns :
            /\ conn[c].pc \in {"Reading", "Closed"} \cup Dispatch
            /\ conn[c].pc \in Dispatch <=> conn[c].request.kind # "None")
    /\ [][\A c \in Conns :
            /\ Moves(c, {"Reading"}, {"Reading", "Closed"} \cup Dispatch) =>
                  conn'[c].pc \in {"JoinInsert", "PostSend", "ErrLock", "Closed"}
            /\ Moves(c, {"JoinInsert"}, {"Reading", "Closed"} \cup Dispatch) =>
                  conn'[c].pc = "JoinSubscribe" /\ conn'[c].request = conn[c].request
            /\ Moves(c, {"ErrLock"}, {"Reading", "Closed"} \cup Dispatch) =>
                  conn'[c].pc = "ErrWrite" /\ conn'[c].request = conn[c].request
            /\ Moves(c, {"JoinSubscribe", "PostSend"}, {"Reading", "Closed"} \cup Dispatch) =>
                  conn'[c].pc = "Reading"
            /\ Moves(c, {"ErrWrite"}, {"Reading", "Closed"} \cup Dispatch) =>
                  conn'[c].pc = IF sock[c] = "open" THEN "Reading" ELSE "Closed"
            /\ Moves(c, {"PostSend"}, {"Reading"}) =>
                  /\ Len(groups'[conn[c].group].posted) = Len(groups[conn[c].group].posted) + 1
                  /\ groups'[conn[c].group].posted[Len(groups'[conn[c].group].posted)].message
                        = conn[c].request.message
                  /\ \A gid \in 1..Len(groups) :
                        gid # conn[c].group => groups'[gid].posted = groups[gid].posted
            /\ conn[c].pc = "Closed" => conn'[c].pc = "Closed"
         ]_vars

\* A read loop that was sent the reply to a failed Post has ended, after
\* two Posts were read.
C27_Witness ==
    \E c \in Conns :
        /\ conn[c].pc = "Closed"
        /\ Len(conn[c].sent) >= 1
        /\ npost >= 2

Quote == "\""
Backslash == "\\"
Newline == "\n"
Chars == {"a", "n", Quote, Backslash, Newline}
MaxStringLen == 2
Strings == UNION {[1..k -> Chars] : k \in 0..MaxStringLen}

\* FromClient::Join and FromClient::Post.
Join(group_name) == [kind |-> "Join", group_name |-> group_name]
Post(group_name, message) ==
    [kind |-> "Post", group_name |-> group_name, message |-> message]
FromClient ==
    {Join(n) : n \in Strings} \cup {Post(n, m) : n \in Strings, m \in Strings}

\* The fixed text serde's derived externally tagged representation puts
\* around the two strings.
JoinOpen ==
    <<"{", Quote, "J", "o", "i", "n", Quote, ":", "{",
      Quote, "g", "r", "o", "u", "p", "_", "n", "a", "m", "e", Quote, ":", Quote>>
PostOpen ==
    <<"{", Quote, "P", "o", "s", "t", Quote, ":", "{",
      Quote, "g", "r", "o", "u", "p", "_", "n", "a", "m", "e", Quote, ":", Quote>>
MessageKey ==
    <<",", Quote, "m", "e", "s", "s", "a", "g", "e", Quote, ":", Quote>>
Close == <<"}", "}">>

\* serde_json writes a quote, a backslash and a line feed as two characters.
EscapeChar(ch) ==
    IF ch = Quote THEN <<Backslash, Quote>>
    ELSE IF ch = Backslash THEN <<Backslash, Backslash>>
    ELSE IF ch = Newline THEN <<Backslash, "n">>
    ELSE <<ch>>
RECURSIVE Escape(_)
Escape(str) == IF str = <<>> THEN <<>> ELSE EscapeChar(Head(str)) \o Escape(Tail(str))

\* serde_json::to_string of a FromClient value.
ToJsonString(packet) ==
    IF packet.kind = "Join"
    THEN JoinOpen \o Escape(packet.group_name) \o <<Quote>> \o Close
    ELSE PostOpen \o Escape(packet.group_name) \o <<Quote>>
            \o MessageKey \o Escape(packet.message) \o <<Quote>> \o Close

\* A packet written with nothing after it.
NoTerminator == <<>>
\* json.push('\n')
Terminator == <<Newline>>

\* What send_as_json writes for one packet.
Json(packet) == ToJsonString(packet) \o Terminator

\* BufRead::lines on a stream that stays open: the pieces that end in a
\* line feed, without it; what follows the last line feed stays buffered.
FirstNewline(stream) ==
    IF \E i \in 1..Len(stream) : stream[i] = Newline
    THEN CHOOSE i \in 1..Len(stream) :
            stream[i] = Newline /\ \A j \in 1..(i - 1) : stream[j] # Newline
    ELSE 0
RECURSIVE Lines(_)
Lines(stream) ==
    LET i == FirstNewline(stream)
    IN  IF i = 0 THEN <<>>
        ELSE <<SubSeq(stream, 1, i - 1)>> \o Lines(SubSeq(stream, i + 1, Len(stream)))

StartsWith(str, prefix) ==
    Len(str) >= Len(prefix) /\ SubSeq(str, 1, Len(prefix)) = prefix
After(str, prefix) == SubSeq(str, Len(prefix) + 1, Len(str))

\* serde_json reading a string after its opening quote: up to the closing
\* quote, undoing the escapes; a raw line feed, an unknown escape or the end
\* of the input is an error.
ParseError == [ok |-> FALSE, value |-> <<>>, rest |-> <<>>]
RECURSIVE ParseString(_)
ParseString(str) ==
    IF str = <<>> THEN ParseError
    ELSE IF Head(str) = Quote THEN [ok |-> TRUE, value |-> <<>>, rest |-> Tail(str)]
    ELSE IF Head(str) = Newline THEN ParseError
    ELSE IF Head(str) = Backslash
    THEN IF Len(str) < 2 \/ str[2] \notin {Quote, Backslash, "n"} THEN ParseError
         ELSE LET r == ParseString(SubSeq(str, 3, Len(str)))
                  ch == IF str[2] = "n" THEN Newline ELSE str[2]
              IN  [r EXCEPT !.value = <<ch>> \o @]
    ELSE LET r == ParseString(Tail(str))
         IN  [r EXCEPT !.value = <<Head(str)>> \o @]

\* serde_json::from_str::<FromClient> of one line.
Failed == [ok |-> FALSE]
Parsed(packet) == [ok |-> TRUE, value |-> packet]
FromStr(line) ==
    IF StartsWith(line, JoinOpen)
    THEN LET n == ParseString(After(line, JoinOpen))
         IN  IF n.ok /\ n.rest = Close THEN Parsed(Join(n.value)) ELSE Failed
    ELSE IF StartsWith(line, PostOpen)
    THEN LET n == ParseString(After(line, PostOpen))
         IN  IF n.ok /\ StartsWith(n.rest, MessageKey)
             THEN LET m == ParseString(After(n.rest, MessageKey))
                  IN  IF m.ok /\ m.rest = Close
                      THEN Parsed(Post(n.value, m.value))
                      ELSE Failed
             ELSE Failed
    ELSE Failed

\* A client is about to send one request.
InitCodec ==
    /\ InitServer
    /\ codec \in {[pc |-> "Client", request |-> packet, stream |-> <<>>,
                   received |-> <<>>] : packet \in FromClient}

\* send_as_json: the packet's JSON and the terminator, written whole.
SendAsJson ==
    /\ codec.pc = "Client"
    /\ codec' = [codec EXCEPT !.pc = "Wire", !.stream = Json(codec.request)]
    /\ UNCHANGED <<conn, sock, out_lock, table, table_lock, groups, subs, njoin, npost>>

\* receive_as_json: every line of the stream, parsed.
ReceiveAsJson ==
    /\ codec.pc = "Wire"
    /\ codec' = [codec EXCEPT
                    !.pc = "Server",
                    !.received = LET lines == Lines(codec.stream)
                                 IN  [i \in 1..Len(lines) |-> FromStr(lines[i])]]
    /\ UNCHANGED <<conn, sock, out_lock, table, table_lock, groups, subs, njoin, npost>>

NextCodec == SendAsJson \/ ReceiveAsJson
SpecCodec == InitCodec /\ [][NextCodec]_vars

\* C29: what send_as_json writes for any client request, Join or Post with
\* any group name and message, is one line: nothing but its last character
\* is a line feed; and receive_as_json reads from it exactly one packet,
\* equal to the request.
C29_WireCodecRoundTrip ==
    /\ codec.pc \in {"Wire", "Server"} =>
          /\ codec.stream # <<>>
          /\ FirstNewline(codec.stream) = Len(codec.stream)
    /\ codec.pc = "Server" =>
          /\ Len(codec.received) = 1
          /\ codec.received[1].ok
          /\ codec.received[1].value = codec.request

\* A Post whose group name holds a quote and whose message holds a line feed
\* and a backslash has been sent and received.
C29_Witness ==
    /\ codec.pc = "Server"
    /\ codec.request.kind = "Post"
    /\ \E i \in 1..Len(codec.request.group_name) : codec.request.group_name[i] = Quote
    /\ codec.request.message = <<Newline, Backslash>>
    /\ Len(codec.received) = 1


\* The group names connection c has joined.
JoinedNames(c) == {subs[t].asked : t \in {u \in Subs : subs[u].conn = c}}

\* C30: every Message packet handed to a subscription for its connection
\* carries a group name the connection has joined, the one this subscription
\* was made with; its body is the body of a Post request that named that
\* same group and was posted to the subscription's group after the join;
\* and no Post request that named another group has that body in any group:
\* a post to g is not delivered through a subscription of h.
C30_NoCrossGroupLeakage ==
    \A s \in Subs : \A k \in 1..Len(Messages(s)) :
        LET p == Messages(s)[k] IN
        /\ p.group_name \in JoinedNames(subs[s].conn)
        /\ p.group_name = subs[s].asked
        /\ \E i \in (subs[s].joined_at + 1)..Len(GroupOf(s).posted) :
              /\ GroupOf(s).posted[i].message = p.message
              /\ GroupOf(s).posted[i].to = p.group_name
        /\ \A gid \in 1..Len(groups) : \A i \in 1..Len(groups[gid].posted) :
              groups[gid].posted[i].message = p.message =>
                  /\ groups[gid].posted[i].to = p.group_name
                  /\ gid = subs[s].group

\* Two connections have joined different groups, both groups were posted
\* to, and each connection was sent the message of its own group.
C30_Witness ==
    \E s \in Subs : \E t \in Subs :
        /\ subs[s].conn # subs[t].conn
        /\ subs[s].asked = "g" /\ subs[t].asked = "h"
        /\ Len(subs[s].sent) = 1 /\ subs[s].sent[1].kind = "Message"
        /\ Len(subs[t].sent) = 1 /\ subs[t].sent[1].kind = "Message"
        /\ subs[s].sent[1].message # subs[t].sent[1].message


\* ------------------------------------------- a reply that cannot be sent
\* C31: when the write of the Error reply to a Post for an unknown group
\* fails on the closed transport, the read loop goes from the dispatch to
\* Closed, with nothing written and the Outbound released; and a read loop
\* that is Closed reads no request and takes no step again.
C31_FailedReplyEndsReadLoop ==
    /\ [](\A c \in Conns :
            conn[c].pc = "Closed" =>
                \A name \in Names : ~ ENABLED RecvJoin(c, name) /\ ~ ENABLED RecvPost(c, name))
    /\ [][\A c \in Conns :
            /\ (conn[c].pc = "ErrWrite" /\ sock[c] = "closed" /\ conn'[c] # conn[c]) =>
                  /\ conn'[c].pc = "Closed"
                  /\ conn'[c].sent = conn[c].sent
                  /\ out_lock'[c] = NoTask
            /\ conn[c].pc = "Closed" =>
                  (conn'[c] = conn[c] /\ (njoin' # njoin \/ npost' # npost =>
                                             \E d \in Conns \ {c} : conn'[d] # conn[d]))
         ]_vars

\* The one Post read so far named a group that does not exist, came from
\* the connection whose client went away, and its read loop has ended
\* without a reply written.
C31_Witness ==
    /\ npost = 1 /\ njoin = 0
    /\ \E c \in Conns :
          /\ conn[c].pc = "Closed" /\ conn[c].sent = <<>> /\ sock[c] = "closed"
          /\ \A d \in Conns \ {c} : conn[d].pc = "Reading" /\ conn[d].sent = <<>>


\* ---------------------------------------------------------- self-delivery
\* The posts sent on the group's channel after subscription s was made:
\* their places in the post order.
PostsSince(s) == (subs[s].joined_at + 1)..Len(GroupOf(s).posted)
\* The packet for the post at place i of the group of s.
PacketAt(s, i) == MessagePacket(subs[s].group_name, GroupOf(s).posted[i].message)
\* The number of times packet p was handed to s.
Copies(s, p) == Cardinality({k \in 1..Len(Handed(s)) : Handed(s)[k] = p})
\* The live subscriptions of connection c to the group its read loop is
\* about to post to.
OwnSubs(c) ==
    {s \in Subs : subs[s].conn = c /\ subs[s].group = conn[c].group /\ subs[s].pc # "Done"}

\* C32: in the runs where one connection joins a group and posts to it, a
\* post of the connection is accepted by the channel with the connection's
\* own subscriptions among the receivers: each falls one message further
\* behind and its poll can return; and a subscription that did not lag has
\* been handed exactly one copy of every message posted since it was made,
\* up to its cursor.
C32_SelfDelivery ==
    /\ [][\A c \in Conns :
            (conn[c].pc = "PostSend" /\ conn'[c] # conn[c]) =>
                \A s \in OwnSubs(c) :
                    LET posted == groups'[subs[s].group].posted IN
                    /\ posted[Len(posted)].rx_cnt >= Cardinality(OwnSubs(c))
                    /\ posted[Len(posted)].message = conn[c].request.message
                    /\ Len(Accepted(groups'[subs[s].group])) = Len(Accepted(GroupOf(s))) + 1
                    /\ RecvReady(groups'[subs[s].group], subs[s].next)
         ]_vars
    /\ [](\A s \in Subs : \A i \in PostsSince(s) :
            (subs[s].pc # "Done" /\ LagSum(Handed(s)) = 0
                /\ subs[s].next > GroupOf(s).posted[i].pos) =>
                    Copies(s, PacketAt(s, i)) = 1)

\* The connection joined the group twice and then posted to it, and was
\* sent its own message through each of its two subscriptions.
C32_Witness ==
    /\ Len(subs) = 2 /\ npost = 1
    /\ \A s \in Subs :
          /\ PostsSince(s) = {1}
          /\ subs[s].sent = <<PacketAt(s, 1)>>


\* ------------------------------------------------------------ repeated Join
\* The subscriptions connection c has to group gid.
SubsOf(c, gid) == {s \in Subs : subs[s].conn = c /\ subs[s].group = gid}
\* The copies of the post at place i of group gid handed to connection c,
\* each named by its subscription and its place in what that was handed.
CopiesTo(c, gid, i) ==
    UNION {{<<s, k>> : k \in {j \in 1..Len(Handed(s)) : Handed(s)[j] = PacketAt(s, i)}} :
              s \in SubsOf(c, gid)}

\* C33: every Join dispatched adds a delivery task and a receiver of its
\* own, also for a connection that has a subscription to the group already;
\* and a post made when the connection had k subscriptions to the group has
\* been handed to the connection in exactly k copies, one through each of
\* them, once the cursors of the k are past it, none of them having lagged
\* or ended.
C33_RepeatedJoinAddsSubscription ==
    /\ [][\A c \in Conns :
            (conn[c].pc = "JoinSubscribe" /\ conn'[c] # conn[c]) =>
                /\ Len(subs') = Len(subs) + 1
                /\ Cardinality({s \in 1..Len(subs') :
                                   subs'[s].conn = c /\ subs'[s].group = conn[c].group})
                      = Cardinality(SubsOf(c, conn[c].group)) + 1
                /\ groups'[conn[c].group].rx_cnt = groups[conn[c].group].rx_cnt + 1
         ]_vars
    /\ [](\A c \in Conns : \A gid \in 1..Len(groups) : \A i \in 1..Len(groups[gid].posted) :
            LET before == {s \in SubsOf(c, gid) : subs[s].joined_at < i} IN
            (\A s \in before : /\ subs[s].pc # "Done" /\ LagSum(Handed(s)) = 0
                               /\ subs[s].next > groups[gid].posted[i].pos)
                => Cardinality(CopiesTo(c, gid, i)) = Cardinality(before))

\* A connection joined a group, a message was posted, the connection joined
\* the group again and a second message was posted: the connection was sent
\* the first message once and the second twice.
C33_Witness ==
    \E c \in Conns : \E gid \in 1..Len(groups) :
        /\ Cardinality(SubsOf(c, gid)) = 2
        /\ Len(groups[gid].posted) = 2
        /\ \A s \in SubsOf(c, gid) : subs[s].pc = "Recv" /\ Behind(s) = 0
        /\ Cardinality(CopiesTo(c, gid, 1)) = 1
        /\ Cardinality(CopiesTo(c, gid, 2)) = 2


\* ------------------------------------------------- posting without joining
\* Connection c has no subscription.
NeverJoined(c) == \A s \in Subs : subs[s].conn # c

RECURSIVE PlaceOf(_, _, _)
PlaceOf(packets, cursor, q) ==
    IF packets = <<>> THEN 0
    ELSE LET p == Head(packets)
             step == IF p.kind = "Message" THEN 1 ELSE p.n
         IN  IF q < cursor + step THEN 1
             ELSE LET rest == PlaceOf(Tail(packets), cursor + step, q)
                  IN  IF rest = 0 THEN 0 ELSE rest + 1

\* C35: a read loop reads its next request only with a subscription
\* registered for every Join it has dispatched; when it posts, the cursor of
\* every subscription its connection has to the group is at or before the
\* sequence number the message gets, and the channel accepts the message;
\* and every message between a subscription's first cursor and its cursor
\* has been handed to it, as the Message packet of that very message or
\* counted in a lag report.
C35_JoinBeforePost ==
    /\ [](Len(subs) = njoin - Cardinality(Joining))
    /\ [][\A c \in Conns :
            (conn[c].pc = "PostSend" /\ conn'[c] # conn[c]) =>
                \A s \in OwnSubs(c) :
                    LET posted == groups'[subs[s].group].posted IN
                    /\ subs[s].next <= GroupOf(s).pos
                    /\ posted[Len(posted)].pos = GroupOf(s).pos
                    /\ posted[Len(posted)].rx_cnt > 0
                    /\ groups'[subs[s].group].pos = GroupOf(s).pos + 1
         ]_vars
    /\ [](\A s \in Subs :
            subs[s].pc # "Done" =>
                \A q \in NextSeqAtJoin(s)..(subs[s].next - 1) :
                    LET k == PlaceOf(Handed(s), NextSeqAtJoin(s), q) IN
                    /\ k > 0
                    /\ Handed(s)[k].kind = "Message" => Handed(s)[k] = NthMessage(s, q + 1))

\* The connection joined and then posted more messages than the ring holds
\* before its delivery task ran: the task was sent a lag report for the
\* first message and then the message posted second.
C35_Witness ==
    \E s \in Subs :
        /\ NextSeqAtJoin(s) = 0
        /\ Len(subs[s].sent) = 2
        /\ subs[s].sent[1].kind = "Error"
        /\ PlaceOf(subs[s].sent, 0, 0) = 1
        /\ PlaceOf(subs[s].sent, 0, 1) = 2
        /\ subs[s].sent[2] = NthMessage(s, 2)


\* ------------------------------------------------------- deadlock freedom
\* The locks task holds: the table's, named "table", and the Outbounds',
\* named by their connections.
LocksOf(task) ==
    (IF table_lock = task THEN {"table"} ELSE {}) \cup {c \in Conns : out_lock[c] = task}
\* The tasks that wait for the Outbound of connection c.
WaitingForOutbound(c) ==
    (IF conn[c].pc = "ErrLock" THEN {ServeTask(c)} ELSE {})
        \cup {SubTask(s) : s \in {t \in Subs : subs[t].conn = c /\ subs[t].pc = "SendLock"}}
\* Every task of the server.
Tasks == {ServeTask(c) : c \in Conns} \cup {SubTask(s) : s \in Subs}

C38_HeadOfLineBlocking ==
    /\ [](\A s \in Subs :
            LET c == subs[s].conn IN
            out_lock[c] = SubTask(s) =>
                /\ \A t \in Subs \ {s} :
                      subs[t].conn = c =>
                          /\ ~ ENABLED SubLock(t)
                          /\ ~ ENABLED SubWrite(t)
                          /\ (subs[t].pc = "Recv" /\ Behind(t) > 0) => ENABLED SubRecv(t)
                /\ ~ ENABLED ErrLock(c)
                /\ ~ ENABLED ErrWrite(c)
                /\ (conn[c].pc = "Reading" /\ sock[c] = "open" /\ TableLockFree) =>
                      \A name \in Names :
                          /\ njoin < MaxJoins => ENABLED RecvJoin(c, name)
                          /\ npost < MaxPosts => ENABLED RecvPost(c, name)
                /\ conn[c].pc = "JoinInsert" => ENABLED JoinInsert(c)
                /\ conn[c].pc = "JoinSubscribe" => ENABLED JoinSubscribe(c)
                /\ conn[c].pc = "PostSend" => ENABLED PostSend(c))
    /\ [][\A s \in Subs :
            LET c == subs[s].conn IN
            out_lock[c] = SubTask(s) =>
                /\ conn'[c].sent = conn[c].sent
                /\ \A t \in Subs \ {s} : subs[t].conn = c => subs'[t].sent = subs[t].sent
         ]_vars

\* A delivery task is inside the write of a message of one group while the
\* delivery task the same connection has for the other group waits for the
\* Outbound with a message in hand, and the read loop is at reading.
C38_Witness ==
    \E s \in Subs : \E t \in Subs :
        /\ subs[s].conn = subs[t].conn
        /\ subs[s].group # subs[t].group
        /\ out_lock[subs[s].conn] = SubTask(s)
        /\ subs[t].pc = "SendLock" /\ subs[t].packet.kind = "Message"
        /\ conn[subs[s].conn].pc = "Reading"


\* --------------------------------------------------- a group never closes
\* C39: every group stays in the table under its name with its channel
\* open, so a poll returns a message or a lag report and the task goes on to
\* send it; a delivery task ends only out of a write on a closed transport;
\* and a delivery task whose cursor is at next_seq has no step to take, and
\* stays as it is through every step that posts nothing to its group, also
\* when its connection's transport is closed and its read loop has ended.
C39_GroupNeverCloses ==
    /\ [](\A gid \in 1..Len(groups) :
            ~ groups[gid].closed /\ table[groups[gid].name] = gid)
    /\ [](\A s \in Subs :
            (subs[s].pc = "Recv" /\ Behind(s) = 0) => ~ ENABLED SubStep(s))
    /\ [][\A s \in Subs :
            /\ Polled(s) =>
                  /\ subs'[s].pc = "SendLock"
                  /\ subs'[s].packet.kind \in {"Message", "Error"}
            /\ (subs[s].pc # "Done" /\ subs'[s].pc = "Done") =>
                  (subs[s].pc = "Write" /\ sock[subs[s].conn] = "closed")
            /\ (/\ subs[s].pc = "Recv" /\ Behind(s) = 0
                /\ groups'[subs[s].group].pos = GroupOf(s).pos) => subs'[s] = subs[s]
         ]_vars

\* The clients have sent all their posts; a delivery task of the connection
\* whose transport is closed and whose read loop has ended waits for a
\* message with its cursor at next_seq, while another delivery task ended on
\* a failed write.
C39_Witness ==
    /\ npost = MaxPosts
    /\ \A c \in Conns : conn[c].pc \in {"Reading", "Closed"}
    /\ \E s \in Subs : \E t \in Subs :
          /\ subs[s].pc = "Recv" /\ Behind(s) = 0
          /\ sock[subs[s].conn] = "closed" /\ conn[subs[s].conn].pc = "Closed"
          /\ subs[t].pc = "Done"


\* -------------------------------------------------------- per-sender FIFO
\* The number of posts before place i of the post order of g that the
\* channel accepted.
AcceptedBefore(g, i) == Cardinality({j \in 1..(i - 1) : g.posted[j].rx_cnt > 0})

\* Every post of g the channel accepted has the number of accepted posts
\* before it, so the numbers grow along the post order and no two posts
\* share one; and the ring holds each message under its own number.
OneSequence(g) ==
    /\ \A i \in 1..Len(g.posted) : \A j \in 1..Len(g.posted) :
          (i < j /\ g.posted[i].rx_cnt > 0 /\ g.posted[j].rx_cnt > 0) =>
              g.posted[i].pos < g.posted[j].pos
    /\ \A i \in 1..Len(g.posted) :
          g.posted[i].rx_cnt > 0 => g.posted[i].pos = AcceptedBefore(g, i)
    /\ \A k \in Slots : \A i \in 1..Len(g.posted) :
          (g.buffer[k].val # NoMessage /\ g.buffer[k].val = g.posted[i].message) =>
              g.buffer[k].pos = g.posted[i].pos

====
